---- MODULE Spec2Model ----
(***************************************************************************)
(* The prediction form of the weather prediction app                       *)
(* (src/src/components/PredictionForm.tsx) and its service layer           *)
(* (src/unnamed/part_000, part_001).  Two versions of the component are    *)
(* in the source: the multi-field one (a 14x5 grid, per-model errors) and  *)
(* the single-field one (14 minimum temperatures).  The variable `variant` *)
(* records which one is mounted.                                           *)
(*                                                                         *)
(* Text typed in a field is a sequence of one-character strings, so that   *)
(* parseFloat, trim and Number.toString are computed rather than assumed.  *)
(* JavaScript's null/undefined is the record Null; a present value v is    *)
(* Some(v).  Objects used as maps are functions over their key set.        *)
(***************************************************************************)
EXTENDS Integers, Sequences, FiniteSets, TLC

\* ------------------------------------------------------------ option type
Null == [isNull |-> TRUE]
Some(v) == [isNull |-> FALSE, val |-> v]

EmptyMap == [k \in {} |-> Null]

\* ------------------------------------------------------------------ text
DigitChars == <<"0", "1", "2", "3", "4", "5", "6", "7", "8", "9">>

IsDigit(c) == \E i \in 1..10 : DigitChars[i] = c

DigitVal(c) == (CHOOSE i \in 1..10 : DigitChars[i] = c) - 1

\* StrWhiteSpaceChar; the modelled alphabet has the space only.
IsWhite(c) == c = " "

RECURSIVE TrimStart(_)
TrimStart(s) == IF s # <<>> /\ IsWhite(Head(s)) THEN TrimStart(Tail(s)) ELSE s

RECURSIVE TrimEnd(_)
TrimEnd(s) ==
  IF s # <<>> /\ IsWhite(s[Len(s)]) THEN TrimEnd(SubSeq(s, 1, Len(s) - 1)) ELSE s

\* String.prototype.trim
trim(s) == TrimEnd(TrimStart(s))

StartsWith(s, p) == Len(s) >= Len(p) /\ SubSeq(s, 1, Len(p)) = p

RECURSIVE DigitPrefix(_)
DigitPrefix(s) ==
  IF s # <<>> /\ IsDigit(Head(s)) THEN <<Head(s)>> \o DigitPrefix(Tail(s)) ELSE <<>>

RECURSIVE DigitsValue(_)
DigitsValue(ds) ==
  IF ds = <<>> THEN 0
  ELSE 10 * DigitsValue(SubSeq(ds, 1, Len(ds) - 1)) + DigitVal(ds[Len(ds)])

RECURSIVE NumDigits(_)
NumDigits(n) == IF n < 10 THEN 1 ELSE 1 + NumDigits(n \div 10)

\* --------------------------------------------------------------- numbers
\* A JavaScript number: NaN, an infinity, or the finite value m * 10^e with
\* m an integer without trailing zeros (m = 0 has e = 0).
NaN == [kind |-> "nan"]
Infinity(neg) == [kind |-> "inf", neg |-> neg]

RECURSIVE Normal(_, _)
Normal(m, e) ==
  IF m = 0 THEN [kind |-> "num", m |-> 0, e |-> 0]
  ELSE IF m % 10 = 0 THEN Normal(m \div 10, e + 1)
  ELSE [kind |-> "num", m |-> m, e |-> e]

\* The largest decimal exponent of a double: a decimal literal of magnitude
\* 10^309 or more evaluates to an infinity.
MaxDoubleExp10 == 308

Abs(n) == IF n < 0 THEN -n ELSE n

Finite(m, e) ==
  LET v == Normal(m, e)
  IN IF v.m # 0 /\ NumDigits(Abs(v.m)) + v.e > MaxDoubleExp10 + 1
     THEN Infinity(v.m < 0)
     ELSE v

Zero == Finite(0, 0)

isNaN(v) == v.kind = "nan"

isFinite(v) == v.kind = "num"

INFINITY_LITERAL == <<"I", "n", "f", "i", "n", "i", "t", "y">>

\* The exponent part of a StrDecimalLiteral at the head of s: [len, exp], len = 0
\* when s does not start with one.
ExponentPart(s) ==
  IF s = <<>> \/ Head(s) \notin {"e", "E"} THEN [len |-> 0, exp |-> 0]
  ELSE LET r == Tail(s)
           signed == r # <<>> /\ Head(r) \in {"+", "-"}
           ds == DigitPrefix(IF signed THEN Tail(r) ELSE r)
       IN IF ds = <<>> THEN [len |-> 0, exp |-> 0]
          ELSE [len |-> 1 + (IF signed THEN 1 ELSE 0) + Len(ds),
                exp |-> IF signed /\ Head(r) = "-" THEN -DigitsValue(ds)
                        ELSE DigitsValue(ds)]

\* The global parseFloat: leading white space is skipped, the longest prefix
\* that is a decimal literal is evaluated, the rest is ignored; NaN when no
\* prefix is one.
parseFloat(s) ==
  LET t == TrimStart(s)
      signed == t # <<>> /\ Head(t) \in {"+", "-"}
      neg == signed /\ Head(t) = "-"
      u == IF signed THEN Tail(t) ELSE t
  IN IF StartsWith(u, INFINITY_LITERAL) THEN Infinity(neg)
     ELSE LET ip == DigitPrefix(u)
              r1 == SubSeq(u, Len(ip) + 1, Len(u))
              fp == IF r1 # <<>> /\ Head(r1) = "." THEN DigitPrefix(Tail(r1)) ELSE <<>>
              r2 == IF r1 # <<>> /\ Head(r1) = "."
                    THEN SubSeq(r1, Len(fp) + 2, Len(r1)) ELSE r1
              ex == ExponentPart(r2)
              mag == DigitsValue(ip \o fp)
          IN IF ip = <<>> /\ fp = <<>> THEN NaN
             ELSE Finite(IF neg THEN -mag ELSE mag, ex.exp - Len(fp))

RECURSIVE DigitsOf(_)
DigitsOf(n) ==
  IF n < 10 THEN <<DigitChars[n + 1]>>
  ELSE DigitsOf(n \div 10) \o <<DigitChars[(n % 10) + 1]>>

RECURSIVE Zeros(_)
Zeros(k) == IF k <= 0 THEN <<>> ELSE <<"0">> \o Zeros(k - 1)

\* Number.prototype.toString for magnitudes written without an exponent
\* (1e-7 <= |v| < 1e21), and for NaN and the infinities.
toString(v) ==
  IF v.kind = "nan" THEN <<"N", "a", "N">>
  ELSE IF v.kind = "inf"
  THEN (IF v.neg THEN <<"-">> ELSE <<>>) \o INFINITY_LITERAL
  ELSE LET sign == IF v.m < 0 THEN <<"-">> ELSE <<>>
           ds == DigitsOf(Abs(v.m))
       IN IF v.e >= 0 THEN sign \o ds \o Zeros(v.e)
          ELSE IF Len(ds) > -v.e
          THEN sign \o SubSeq(ds, 1, Len(ds) + v.e) \o <<".">>
                    \o SubSeq(ds, Len(ds) + v.e + 1, Len(ds))
          ELSE sign \o <<"0", ".">> \o Zeros(-v.e - Len(ds)) \o ds

\* ----------------------------------------- decimal numbers of 20 places
\* The parameters of the regression have up to 19 decimal places, more than
\* a machine integer holds, so a value is written as six limbs in base
\* 10000: the integer part, then five groups of four decimal digits.  The
\* canonical form has every fractional limb in 0..9999.  Arithmetic on these
\* values is exact; the rounding of a double is not followed.
Base == 10000

RECURSIVE Carry(_, _)
Carry(x, k) ==
  IF k = 1 THEN x
  ELSE Carry([x EXCEPT ![k] = x[k] % Base, ![k - 1] = x[k - 1] + (x[k] \div Base)], k - 1)

Canonical(x) == Carry(x, Len(x))

Negated(x) == Canonical([k \in 1..Len(x) |-> 0 - x[k]])

\* sum + product, temp * coefficient for a whole-number temp
Plus(x, y) == Canonical([k \in 1..Len(x) |-> x[k] + y[k]])

Times(temp, x) == Canonical([k \in 1..Len(x) |-> temp * x[k]])

Whole(n) == <<n, 0, 0, 0, 0, 0>>

\* const MODEL_PARAMS = { coef: [...], intercept: 1.1008575337049606 }
MODEL_PARAMS ==
  [coef |-> <<<<0, 458, 286, 4977, 5578, 1000>>,
             Negated(<<0, 115, 8442, 7506, 3130, 8300>>),
             <<0, 166, 1403, 373, 9536, 9000>>,
             <<0, 396, 1451, 5355, 6364, 7000>>,
             Negated(<<0, 372, 750, 8480, 1582, 7400>>),
             <<0, 138, 8437, 7296, 5929, 1300>>,
             <<0, 357, 9110, 7766, 5046, 7000>>,
             Negated(<<0, 243, 9927, 2308, 9056, 8500>>),
             Negated(<<0, 98, 1862, 8453, 3768, 3200>>),
             <<0, 393, 261, 3708, 3906, 2000>>,
             <<0, 558, 468, 6606, 435, 8000>>,
             <<0, 233, 5354, 6092, 1091, 3000>>,
             Negated(<<0, 1554, 7531, 2765, 6467, 7000>>),
             <<0, 9438, 7210, 8, 6330, 0>>>>,
   intercept |-> <<1, 1008, 5753, 3704, 9606, 0>>]

\* ------------------------------------------------------------- constants
\* Array(14): the number of rows of the grid.
Rows == 14

MODELS == <<"lr", "rf", "svr", "svr_tuned", "gbr", "gbr_tuned", "ann", "ann_tuned", "lstm">>

RECOMMENDED_MODELS == <<"rf", "gbr_tuned", "ann_tuned", "lstm">>

\* The catalog of the single-field version.
MODELS_SINGLE == <<"linear_regression", "random_forest", "ann">>

Fields == {"max", "min", "precip", "snow", "depth"}

Range(s) == {s[i] : i \in 1..Len(s)}

BlankRow == [max |-> <<>>, min |-> <<>>, precip |-> <<>>, snow |-> <<>>, depth |-> <<>>]

BlankData == [i \in 1..Rows |-> BlankRow]

BlankTemps == [i \in 1..Rows |-> <<>>]

\* ----------------------------------------------------------------- state
VARIABLES
  variant,         \* which version of PredictionForm is mounted
  inputMode,       \* "manual" | "city"
  cityQuery,       \* text of the city input
  weatherData,     \* multi: 14 rows of five texts
  temps,           \* single: 14 texts
  selectedModels,  \* list of model ids
  loading,
  predictions,     \* Null or Some(map id -> result)
  modelErrors,     \* multi: map id -> message
  globalError,     \* multi: Null or Some(message)
  error,           \* single: Null or Some(message)
  predictCalls,    \* handlePredict invocations suspended at an await
  citySearches,    \* handleCitySearch invocations suspended at an await
  input,           \* the vector predictMinTemp is called with
  outcome,         \* Null, or what the last call of predictMinTemp did
  modelParams      \* the MODEL_PARAMS object

vars == <<variant, inputMode, cityQuery, weatherData, temps, selectedModels, loading,
          predictions, modelErrors, globalError, error, predictCalls, citySearches,
          input, outcome, modelParams>>

\* The state of the exported regression function, which no handler touches.
regression == <<input, outcome, modelParams>>

form == <<variant, inputMode, cityQuery, weatherData, temps, selectedModels>>

Multi == variant = "multi"

Single == variant = "single"

Remove(s, i) == SubSeq(s, 1, i - 1) \o SubSeq(s, i + 1, Len(s))

\* ---------------------------------------------------------------- bounds
\* Handler invocations suspended at an await that the model follows at once.
MaxSuspended == 2

Suspended == Len(predictCalls) + Len(citySearches)

Init ==
  /\ variant \in {"multi", "single"}
  /\ inputMode = "manual"
  /\ cityQuery = <<>>
  /\ weatherData = IF Multi THEN BlankData ELSE <<>>
  /\ temps = IF Single THEN BlankTemps ELSE <<>>
  /\ selectedModels = IF Multi THEN RECOMMENDED_MODELS ELSE MODELS_SINGLE
  /\ loading = FALSE
  /\ predictions = Null
  /\ modelErrors = EmptyMap
  /\ globalError = Null
  /\ error = Null
  /\ predictCalls = <<>>
  /\ citySearches = <<>>
  /\ input = <<>>
  /\ outcome = Null
  /\ modelParams = MODEL_PARAMS

\* ------------------------------------------------------- inputs (bounded)
\* Texts a user types into a grid cell.
CellTexts == {<<>>, <<"x">>}

\* The cells the modelled user edits.
EditRows == {Rows}

EditFields == {"max"}

\* Texts a user types into the city input.
CityTexts == {<<"p">>}

\* The model tags the modelled user clicks (MODELS.map renders one per id).
ClickIds == {"lr"}

\* Math.random() in fillDemoData: one draw stands for a table.  toFixed
\* yields a decimal text with the digits asked for.
DemoDraws ==
  { [max |-> <<"8", "1", ".", "7">>, min |-> <<"5", "8", ".", "2">>,
     precip |-> <<"0", ".", "1", "3">>] }

\* ---------------------------------------------------- synchronous handlers
\* A faulty handleCellChange, for comparison: the row is not spread, so its
\* other fields are lost.
handleCellChange_replacesRow(rowIndex, field, value) ==
  /\ Multi
  /\ weatherData' = [weatherData EXCEPT ![rowIndex] = [BlankRow EXCEPT ![field] = value]]
  /\ UNCHANGED <<regression, variant, inputMode, cityQuery, temps, selectedModels, loading,
                 predictions, modelErrors, globalError, error, predictCalls, citySearches>>

\* handleCellChange(rowIndex, field, value)
handleCellChange(rowIndex, field, value) ==
  /\ Multi
  /\ weatherData' = [weatherData EXCEPT ![rowIndex] = [@ EXCEPT ![field] = value]]
  /\ UNCHANGED <<regression, variant, inputMode, cityQuery, temps, selectedModels, loading,
                 predictions, modelErrors, globalError, error, predictCalls, citySearches>>

\* A faulty clearData, for comparison: it forgets setModelErrors({}).
clearData_keepsModelErrors ==
  /\ Multi
  /\ weatherData' = BlankData
  /\ predictions' = Null
  /\ globalError' = Null
  /\ UNCHANGED <<regression, variant, inputMode, cityQuery, temps, selectedModels, loading,
                 modelErrors, error, predictCalls, citySearches>>

\* A faulty clearData, for comparison: it also drops the outstanding requests.
clearData_cancels ==
  /\ Multi
  /\ weatherData' = BlankData
  /\ predictions' = Null
  /\ globalError' = Null
  /\ modelErrors' = EmptyMap
  /\ predictCalls' = <<>>
  /\ loading' = FALSE
  /\ UNCHANGED <<regression, variant, inputMode, cityQuery, temps, selectedModels,
                 error, citySearches>>

clearData ==
  /\ Multi
  /\ weatherData' = BlankData
  /\ predictions' = Null
  /\ globalError' = Null
  /\ modelErrors' = EmptyMap
  /\ UNCHANGED <<regression, variant, inputMode, cityQuery, temps, selectedModels, loading,
                 error, predictCalls, citySearches>>

fillDemoData ==
  /\ Multi
  /\ \E d \in DemoDraws :
       weatherData' = [i \in 1..Len(weatherData) |->
                         [max |-> d.max, min |-> d.min, precip |-> d.precip,
                          snow |-> <<"0">>, depth |-> <<"0">>]]
  /\ UNCHANGED <<regression, variant, inputMode, cityQuery, temps, selectedModels, loading,
                 predictions, modelErrors, globalError, error, predictCalls, citySearches>>

\* A faulty toggle, for comparison: the id is appended without looking.
toggled_alwaysAppends(prev, id) == Append(prev, id)

\* prev.includes(id) ? prev.filter(m => m !== id) : [...prev, id]
toggled(prev, id) ==
  IF id \in Range(prev) THEN SelectSeq(prev, LAMBDA m : m # id) ELSE Append(prev, id)

toggleModel(id) ==
  /\ selectedModels' = toggled(selectedModels, id)
  /\ UNCHANGED <<regression, variant, inputMode, cityQuery, weatherData, temps, loading,
                 predictions, modelErrors, globalError, error, predictCalls, citySearches>>

setInputMode(mode) ==
  /\ inputMode' = mode
  /\ UNCHANGED <<regression, variant, cityQuery, weatherData, temps, selectedModels, loading,
                 predictions, modelErrors, globalError, error, predictCalls, citySearches>>

\* The city input is rendered in city mode only.
setCityQuery(text) ==
  /\ inputMode = "city"
  /\ cityQuery' = text
  /\ UNCHANGED <<regression, variant, inputMode, weatherData, temps, selectedModels, loading,
                 predictions, modelErrors, globalError, error, predictCalls, citySearches>>

\* ------------------------------------------------------ the matrix build
\* A faulty missingData, for comparison: it looks at row.max only.
missingData_maxOnly(data) == \E i \in 1..Len(data) : data[i].max = <<>>

\* weatherData.some(row => row.max === '' || row.min === '')
missingData(data) == \E i \in 1..Len(data) : data[i].max = <<>> \/ data[i].min = <<>>

\* A faulty orZero, for comparison: the blank text is kept.
orZero_keepsBlank(text) == text

\* text || '0'
orZero(text) == IF text = <<>> THEN <<"0">> ELSE text

windowRow(row) ==
  <<parseFloat(row.max), parseFloat(row.min), parseFloat(orZero(row.precip)),
    parseFloat(orZero(row.snow)), parseFloat(orZero(row.depth))>>

\* weatherData.map(row => [...])
window(data) == [i \in 1..Len(data) |-> windowRow(data[i])]

\* window.some(row => row.some(val => isNaN(val)))
invalidNumbers(w) == \E i \in 1..Len(w) : \E j \in 1..Len(w[i]) : isNaN(w[i][j])

\* A faulty validation, for comparison: the selection is not looked at.
validation_noSelectionCheck(models, data) ==
  IF missingData(data) THEN Some("Max & Min temps needed.")
  ELSE IF invalidNumbers(window(data)) THEN Some("Invalid numbers detected.")
  ELSE Null

\* The request-level message handlePredict ends with before any await, or
\* Null when the matrix is dispatched.
validation(models, data) ==
  IF Len(models) = 0 THEN Some("Select at least one model.")
  ELSE IF missingData(data) THEN Some("Max & Min temps needed.")
  ELSE IF invalidNumbers(window(data)) THEN Some("Invalid numbers detected.")
  ELSE Null

\* handlePredict up to its first await (the predict button is disabled
\* while loading).
handlePredict ==
  /\ Multi
  /\ ~loading
  /\ predictions' = Null
  /\ modelErrors' = EmptyMap
  /\ LET failed == validation(selectedModels, weatherData)
     IN IF failed # Null
        THEN /\ globalError' = failed
             /\ loading' = FALSE
             /\ UNCHANGED predictCalls
        ELSE /\ Suspended < MaxSuspended
             /\ globalError' = Null
             /\ loading' = TRUE
             /\ predictCalls' = Append(predictCalls,
                  [stage |-> "getPrediction", models |-> selectedModels,
                   data |-> window(weatherData)])
  /\ UNCHANGED <<regression, form, error, citySearches>>

\* ------------------------------------------------- the inference boundary
\* a || b on strings: the empty string is falsy.
orElse(text, default) == IF text = "" THEN default ELSE text

\* What axios rejects with: a response with a body (hasData: the body is
\* truthy; dataError: its error field, "" when it has none), a response
\* without a body, or no response at all.
AxiosErrors ==
  { [hasResponse |-> FALSE, hasData |-> FALSE, dataError |-> "", message |-> "Network Error"],
    [hasResponse |-> FALSE, hasData |-> FALSE, dataError |-> "", message |-> ""],
    [hasResponse |-> TRUE, hasData |-> TRUE, dataError |-> "Model not loaded",
     message |-> "Request failed with status code 500"],
    [hasResponse |-> TRUE, hasData |-> TRUE, dataError |-> "",
     message |-> "Request failed with status code 400"],
    [hasResponse |-> TRUE, hasData |-> FALSE, dataError |-> "",
     message |-> "Request failed with status code 502"] }

\* The rejection followed where handlers interleave.
NetworkErrors == {e \in AxiosErrors : ~e.hasResponse /\ e.message # ""}

\* A faulty catch, for comparison: the axios error is thrown on as it is.
getPredictionThrows_rethrows(err) == err.message

\* The message of what api.getPrediction throws for an axios error.
getPredictionThrows(err) ==
  IF err.hasResponse /\ err.hasData THEN orElse(err.dataError, "Server error")
  ELSE err.message

\* The single-field api.getPrediction has no catch: the axios error itself.
getPredictionSingleThrows(err) == err.message

Result == [value |-> 41, unit |-> "F"]

\* An id the boundary may name although it is in no catalog.
ForeignId == "xgb"

MapOver(ids, v) == [id \in ids |-> v]

\* Bodies the boundary answers a request for `models` with: it is a black
\* box, so besides the well-formed answers (all predicted; some predicted and
\* the others in errors; all in errors) there are answers that omit an id,
\* name an id twice, or name an id nobody asked for.
Responses(models) ==
  LET ids == Range(models)
      first == {models[1]}
  IN { [predictions |-> MapOver(ids, Result), errors |-> Null],
       [predictions |-> MapOver(first, Result),
        errors |-> Some(MapOver(ids \ first, "timeout"))],
       [predictions |-> EmptyMap, errors |-> Some(MapOver(ids, "timeout"))],
       [predictions |-> MapOver(ids \ first, Result), errors |-> Null],
       [predictions |-> MapOver(ids, Result), errors |-> Some(MapOver(first, "timeout"))],
       [predictions |-> MapOver(ids \cup {ForeignId}, Result), errors |-> Null] }

\* The well-formed answers: every requested id in exactly one of the maps.
WellFormed(models) ==
  {r \in Responses(models) :
     LET e == IF r.errors = Null THEN {} ELSE DOMAIN r.errors.val
     IN /\ DOMAIN r.predictions \cup e = Range(models)
        /\ DOMAIN r.predictions \cap e = {}
        /\ DOMAIN r.predictions # {}}

\* A faulty continuation, for comparison: setLoading(false) is not reached.
getPredictionResolves_keepsLoading(i, response) ==
  /\ Multi
  /\ predictCalls[i].stage = "getPrediction"
  /\ predictions' = Some(response.predictions)
  /\ modelErrors' = IF response.errors # Null THEN response.errors.val ELSE modelErrors
  /\ predictCalls' = Remove(predictCalls, i)
  /\ UNCHANGED <<regression, form, loading, globalError, error, citySearches>>

\* handlePredict after `await api.getPrediction(...)` returned `response`.
getPredictionResolves(i, response) ==
  /\ Multi
  /\ predictCalls[i].stage = "getPrediction"
  /\ predictions' = Some(response.predictions)
  /\ modelErrors' = IF response.errors # Null THEN response.errors.val ELSE modelErrors
  /\ loading' = FALSE
  /\ predictCalls' = Remove(predictCalls, i)
  /\ UNCHANGED <<regression, form, globalError, error, citySearches>>

\* A faulty catch, for comparison: the failed request is issued again.
getPredictionRejects_retries(i, err) ==
  /\ Multi
  /\ predictCalls[i].stage = "getPrediction"
  /\ globalError' = Some(orElse(getPredictionThrows(err), "Prediction failed."))
  /\ UNCHANGED <<regression, form, loading, predictions, modelErrors, error, predictCalls, citySearches>>

\* handlePredict after `await api.getPrediction(...)` threw.
getPredictionRejects(i, err) ==
  /\ Multi
  /\ predictCalls[i].stage = "getPrediction"
  /\ globalError' = Some(orElse(getPredictionThrows(err), "Prediction failed."))
  /\ loading' = FALSE
  /\ predictCalls' = Remove(predictCalls, i)
  /\ UNCHANGED <<regression, form, predictions, modelErrors, error, citySearches>>

\* ------------------------------------------------------------ city search
\* Entries of the provider's arrays: a number, or Null for a missing value.
Num(m, e) == Some(Finite(m, e))

\* A provider answer with n days in every array; the listed days have no
\* precipitation value and no maximum.
Daily(n, noPrecip, noMax) ==
  Some([time |-> Some([k \in 1..n |-> k]),
        temperature_2m_max |-> Some([k \in 1..n |-> IF k \in noMax THEN Null ELSE Num(50 + k, 0)]),
        temperature_2m_min |-> Some([k \in 1..n |-> Num(305 + 10 * k, -1)]),
        precipitation_sum |-> Some([k \in 1..n |-> IF k \in noPrecip THEN Null ELSE Num(k % 2, -1)]),
        snowfall_sum |-> Some([k \in 1..n |-> Num(0, 0)])])

ProviderResponses ==
  { [daily |-> Daily(Rows + 1, {3}, {})],
    [daily |-> Daily(Rows - 1, {}, {})] }

\* arr[idx] on a JavaScript array (idx counted from 0): undefined outside it.
At(arr, idx) == IF idx + 1 \in 1..Len(arr) THEN arr[idx + 1] ELSE Null

\* A faulty textOr, for comparison: a missing value is left blank.
textOr_noFallback(value, fallback) ==
  IF value = Null THEN <<>> ELSE toString(value.val)

\* value?.toString() || fallback
textOr(value, fallback) ==
  IF value = Null THEN fallback
  ELSE IF toString(value.val) = <<>> THEN fallback ELSE toString(value.val)

\* !data.daily || !data.daily.temperature_2m_min || ....length < 14
insufficient(data) ==
  \/ data.daily = Null
  \/ data.daily.val.temperature_2m_min = Null
  \/ Len(data.daily.val.temperature_2m_min.val) < Rows

\* A faulty newRows, for comparison: it reads from the start of the arrays.
newRows_fromStart(daily) ==
  [i \in 1..Rows |->
     LET idx == i - 1
     IN [max |-> textOr(At(daily.temperature_2m_max.val, idx), <<>>),
         min |-> textOr(At(daily.temperature_2m_min.val, idx), <<>>),
         precip |-> textOr(At(daily.precipitation_sum.val, idx), <<"0">>),
         snow |-> textOr(At(daily.snowfall_sum.val, idx), <<"0">>),
         depth |-> <<"0">>]]

newRows(daily) ==
  LET startIndex == Len(daily.time.val) - Rows
  IN [i \in 1..Rows |->
        LET idx == startIndex + (i - 1)
        IN [max |-> textOr(At(daily.temperature_2m_max.val, idx), <<>>),
            min |-> textOr(At(daily.temperature_2m_min.val, idx), <<>>),
            precip |-> textOr(At(daily.precipitation_sum.val, idx), <<"0">>),
            snow |-> textOr(At(daily.snowfall_sum.val, idx), <<"0">>),
            depth |-> <<"0">>]]

\* handleCitySearch up to its first await.  Enter in the city input calls
\* it, whatever `loading` is; a blank query returns at once.
handleCitySearch ==
  /\ Multi
  /\ inputMode = "city"
  /\ IF trim(cityQuery) = <<>>
     THEN UNCHANGED vars
     ELSE /\ Suspended < MaxSuspended
          /\ loading' = TRUE
          /\ globalError' = Null
          /\ citySearches' = Append(citySearches,
               [stage |-> "searchCity", query |-> cityQuery])
          /\ UNCHANGED <<regression, form, predictions, modelErrors, error, predictCalls>>

\* A faulty catch, for comparison: the table is blanked on failure.
citySearchFails_clearsTable(i, message) ==
  /\ globalError' = Some(orElse(message, "Failed to fetch city data."))
  /\ loading' = FALSE
  /\ citySearches' = Remove(citySearches, i)
  /\ weatherData' = BlankData
  /\ UNCHANGED <<regression, variant, inputMode, cityQuery, temps, selectedModels,
                 predictions, modelErrors, error, predictCalls>>

\* handleCitySearch ends in its catch with err.message, then its finally.
citySearchFails(i, message) ==
  /\ globalError' = Some(orElse(message, "Failed to fetch city data."))
  /\ loading' = FALSE
  /\ citySearches' = Remove(citySearches, i)
  /\ UNCHANGED <<regression, form, predictions, modelErrors, error, predictCalls>>

\* A faulty continuation, for comparison: `!location` is not tested.
searchCityResolves_noLocationTest(i, location) ==
  /\ Multi
  /\ citySearches[i].stage = "searchCity"
  /\ citySearches' = [citySearches EXCEPT ![i].stage = "getHistoricalWeather"]
  /\ UNCHANGED <<regression, form, loading, predictions, modelErrors, globalError, error, predictCalls>>

\* `await api.searchCity(cityQuery)` returned `location` (Null: no result).
searchCityResolves(i, location) ==
  /\ Multi
  /\ citySearches[i].stage = "searchCity"
  /\ IF location = Null
     THEN citySearchFails(i, "City \"<cityQuery>\" not found.")
     ELSE /\ citySearches' = [citySearches EXCEPT ![i].stage = "getHistoricalWeather"]
          /\ UNCHANGED <<regression, form, loading, predictions, modelErrors, globalError, error,
                         predictCalls>>

\* Either await of handleCitySearch threw an axios error.
citySearchRejects(i, err) ==
  /\ Multi
  /\ citySearchFails(i, err.message)

\* `await api.getHistoricalWeather(...)` returned `data`.
getHistoricalWeatherResolves(i, data) ==
  /\ Multi
  /\ citySearches[i].stage = "getHistoricalWeather"
  /\ IF insufficient(data)
     THEN citySearchFails(i, "Insufficient data.")
     ELSE /\ weatherData' = newRows(data.daily.val)
          /\ predictions' = Null
          /\ loading' = FALSE
          /\ citySearches' = Remove(citySearches, i)
          /\ UNCHANGED <<regression, variant, inputMode, cityQuery, temps, selectedModels,
                         modelErrors, globalError, error, predictCalls>>

Location == Some([latitude |-> 48, longitude |-> 2])

\* ------------------------------------------- the single-field version
\* Texts of an <input type="number">: empty, or a number.
TempTexts == {<<>>, <<"2", "1", ".", "4">>}

ClickIdsSingle == {"ann"}

\* Math.random() in the single-field fillDemoData; toFixed(1).
DemoTemps == {<<"2", "0", ".", "3">>}

\* handleInputChange(index, value); the inputs are read-only in city mode.
handleInputChange(index, value) ==
  /\ Single
  /\ inputMode = "manual"
  /\ temps' = [temps EXCEPT ![index] = value]
  /\ UNCHANGED <<regression, variant, inputMode, cityQuery, weatherData, selectedModels, loading,
                 predictions, modelErrors, globalError, error, predictCalls, citySearches>>

\* The demo button is rendered in manual mode only.
fillDemoDataSingle ==
  /\ Single
  /\ inputMode = "manual"
  /\ \E t \in DemoTemps : temps' = [i \in 1..Rows |-> t]
  /\ UNCHANGED <<regression, variant, inputMode, cityQuery, weatherData, selectedModels, loading,
                 predictions, modelErrors, globalError, error, predictCalls, citySearches>>

\* temps.map(t => parseFloat(t))
numericTemps(ts) == [i \in 1..Len(ts) |-> parseFloat(ts[i])]

validationSingle(models, ts) ==
  IF \E i \in 1..Len(ts) : isNaN(numericTemps(ts)[i])
  THEN Some("Please ensure 14 days of valid temperature data is available.")
  ELSE IF Len(models) = 0 THEN Some("Please select at least one model.")
  ELSE Null

\* handlePredict of the single-field version up to its first await, the
\* 600 ms timer.
handlePredictSingle ==
  /\ Single
  /\ ~loading
  /\ predictions' = Null
  /\ LET failed == validationSingle(selectedModels, temps)
     IN IF failed # Null
        THEN /\ error' = failed
             /\ loading' = FALSE
             /\ UNCHANGED predictCalls
        ELSE /\ Suspended < MaxSuspended
             /\ error' = Null
             /\ loading' = TRUE
             /\ predictCalls' = Append(predictCalls,
                  [stage |-> "timer", models |-> selectedModels,
                   data |-> numericTemps(temps)])
  /\ UNCHANGED <<regression, form, modelErrors, globalError, citySearches>>

\* The timer fired: api.getPrediction(selectedModels, numericTemps) is called.
timerFires(i) ==
  /\ Single
  /\ predictCalls[i].stage = "timer"
  /\ predictCalls' = [predictCalls EXCEPT ![i].stage = "getPrediction"]
  /\ UNCHANGED <<regression, form, loading, predictions, modelErrors, globalError, error, citySearches>>

\* The well-formed answer of the single-field boundary.
ResponseSingle(models) == [predictions |-> MapOver(Range(models), 19)]

ResponsesSingle(models) ==
  { ResponseSingle(models), [predictions |-> MapOver(Range(models) \ {models[1]}, 19)] }

getPredictionResolvesSingle(i, response) ==
  /\ Single
  /\ predictCalls[i].stage = "getPrediction"
  /\ predictions' = Some(response.predictions)
  /\ loading' = FALSE
  /\ predictCalls' = Remove(predictCalls, i)
  /\ UNCHANGED <<regression, form, modelErrors, globalError, error, citySearches>>

getPredictionRejectsSingle(i, err) ==
  /\ Single
  /\ predictCalls[i].stage = "getPrediction"
  /\ error' = Some(orElse(getPredictionSingleThrows(err),
                          "An error occurred during prediction."))
  /\ loading' = FALSE
  /\ predictCalls' = Remove(predictCalls, i)
  /\ UNCHANGED <<regression, form, predictions, modelErrors, globalError, citySearches>>

\* Enter in the city input, or the search button (disabled while loading).
handleCitySearchSingle ==
  /\ Single
  /\ inputMode = "city"
  /\ IF trim(cityQuery) = <<>>
     THEN UNCHANGED vars
     ELSE /\ Suspended < MaxSuspended
          /\ loading' = TRUE
          /\ error' = Null
          /\ citySearches' = Append(citySearches,
               [stage |-> "searchCity", query |-> cityQuery])
          /\ UNCHANGED <<regression, form, predictions, modelErrors, globalError, predictCalls>>

citySearchFailsSingle(i, message) ==
  /\ error' = Some(orElse(message, "Failed to fetch city data."))
  /\ loading' = FALSE
  /\ citySearches' = Remove(citySearches, i)
  /\ UNCHANGED <<regression, form, predictions, modelErrors, globalError, predictCalls>>

searchCityResolvesSingle(i, location) ==
  /\ Single
  /\ citySearches[i].stage = "searchCity"
  /\ IF location = Null
     THEN citySearchFailsSingle(i, "City \"<cityQuery>\" not found.")
     ELSE /\ citySearches' = [citySearches EXCEPT ![i].stage = "getHistoricalWeather"]
          /\ UNCHANGED <<regression, form, loading, predictions, modelErrors, globalError, error,
                         predictCalls>>

citySearchRejectsSingle(i, err) ==
  /\ Single
  /\ citySearchFailsSingle(i, err.message)

\* arr.slice(-14)
lastRows(arr) == SubSeq(arr, IF Len(arr) > Rows THEN Len(arr) - Rows + 1 ELSE 1, Len(arr))

getHistoricalWeatherResolvesSingle(i, data) ==
  /\ Single
  /\ citySearches[i].stage = "getHistoricalWeather"
  /\ IF insufficient(data)
     THEN citySearchFailsSingle(i, "Insufficient historical data for this location.")
     ELSE LET last14Days == lastRows(data.daily.val.temperature_2m_min.val)
          IN IF \E k \in 1..Len(last14Days) : last14Days[k] = Null
             THEN citySearchFailsSingle(i,
                    "Cannot read properties of null (reading 'toString')")
             ELSE /\ temps' = [k \in 1..Len(last14Days) |-> toString(last14Days[k].val)]
                  /\ loading' = FALSE
                  /\ citySearches' = Remove(citySearches, i)
                  /\ UNCHANGED <<regression, variant, inputMode, cityQuery, weatherData, selectedModels,
                                 predictions, modelErrors, globalError, error, predictCalls>>

\* ------------------------------------------------------------------ next
Next ==
  \/ \E r \in EditRows, f \in EditFields, t \in CellTexts : handleCellChange(r, f, t)
  \/ clearData
  \/ fillDemoData
  \/ \E id \in IF Multi THEN ClickIds ELSE ClickIdsSingle : toggleModel(id)
  \/ \E mode \in {"manual", "city"} : setInputMode(mode)
  \/ \E t \in CityTexts : setCityQuery(t)
  \/ handlePredict
  \/ \E i \in 1..Len(predictCalls) :
       \E response \in WellFormed(predictCalls[i].models) : getPredictionResolves(i, response)
  \/ \E i \in 1..Len(predictCalls), err \in NetworkErrors : getPredictionRejects(i, err)
  \/ handleCitySearch
  \/ \E i \in 1..Len(citySearches), location \in {Null, Location} : searchCityResolves(i, location)
  \/ \E i \in 1..Len(citySearches), err \in NetworkErrors : citySearchRejects(i, err)
  \/ \E i \in 1..Len(citySearches), data \in ProviderResponses :
       getHistoricalWeatherResolves(i, data)
  \/ \E r \in EditRows, t \in TempTexts : handleInputChange(r, t)
  \/ fillDemoDataSingle
  \/ handlePredictSingle
  \/ \E i \in 1..Len(predictCalls) : timerFires(i)
  \/ \E i \in 1..Len(predictCalls) :
       \E response \in {ResponseSingle(predictCalls[i].models)} :
         getPredictionResolvesSingle(i, response)
  \/ \E i \in 1..Len(predictCalls), err \in NetworkErrors : getPredictionRejectsSingle(i, err)
  \/ handleCitySearchSingle
  \/ \E i \in 1..Len(citySearches), location \in {Null, Location} :
       searchCityResolvesSingle(i, location)
  \/ \E i \in 1..Len(citySearches), err \in NetworkErrors : citySearchRejectsSingle(i, err)
  \/ \E i \in 1..Len(citySearches), data \in ProviderResponses :
       getHistoricalWeatherResolvesSingle(i, data)

Spec == Init /\ [][Next]_vars

\* ------------------------------------------- the selection specification
\* The multi-field form with the model tags being clicked between requests.
SelectIds == {"lr", "rf", "svr", "lstm"}

InitSelect == Init /\ Multi

NextSelect ==
  \/ \E id \in SelectIds : toggleModel(id)
  \/ fillDemoData
  \/ handlePredict
  \/ \E i \in 1..Len(predictCalls) : \E response \in WellFormed(predictCalls[i].models) :
       getPredictionResolves(i, response)
  \/ \E i \in 1..Len(predictCalls) : \E err \in NetworkErrors : getPredictionRejects(i, err)

SpecSelect == InitSelect /\ [][NextSelect]_vars

\* ------------------------------------------- one request, many inputs
\* Forms the user can have built by edits and toggles before a submit: the
\* demo table with a few cells overwritten, and a few selections.
MaxOverwrites == 2

RequestTexts ==
  { <<>>, <<" ">>, <<"x">>, <<"-", "3">>, <<"1", "2", "a", "b">>,
    INFINITY_LITERAL, <<"1", "e", "9", "9", "9">> }

RequestCells ==
  { <<1, "max">>, <<1, "precip">>, <<Rows, "min">>, <<Rows, "snow">>, <<Rows, "depth">> }

DemoTable ==
  LET d == CHOOSE x \in DemoDraws : TRUE
  IN [i \in 1..Rows |-> [max |-> d.max, min |-> d.min, precip |-> d.precip,
                         snow |-> <<"0">>, depth |-> <<"0">>]]

Overwritten(base, f) ==
  LET T(i, fld) == IF <<i, fld>> \in DOMAIN f THEN f[<<i, fld>>] ELSE base[i][fld]
  IN [i \in 1..Rows |-> [max |-> T(i, "max"), min |-> T(i, "min"),
                         precip |-> T(i, "precip"), snow |-> T(i, "snow"),
                         depth |-> T(i, "depth")]]

RequestTables ==
  UNION { {Overwritten(DemoTable, f) : f \in [cells -> RequestTexts]} :
          cells \in {c \in SUBSET RequestCells : Cardinality(c) <= MaxOverwrites} }

RequestSelections == {<<>>, <<"rf">>, <<"rf", "gbr_tuned">>}

RequestTemps ==
  UNION { {[i \in 1..Rows |-> IF i \in rows THEN t ELSE CHOOSE x \in DemoTemps : TRUE] :
           t \in TempTexts \cup {<<"-", "3">>}} :
          rows \in {r \in SUBSET {1, Rows} : Cardinality(r) <= MaxOverwrites} }

RequestSelectionsSingle == {<<>>, <<"ann">>, MODELS_SINGLE}

InitRequest ==
  /\ variant \in {"multi", "single"}
  /\ inputMode = "manual"
  /\ cityQuery = <<>>
  /\ weatherData \in IF Multi THEN RequestTables ELSE {<<>>}
  /\ temps \in IF Single THEN RequestTemps ELSE {<<>>}
  /\ selectedModels \in IF Multi THEN RequestSelections ELSE RequestSelectionsSingle
  /\ loading = FALSE
  /\ predictions = Null
  /\ modelErrors = EmptyMap
  /\ globalError = Null
  /\ error = Null
  /\ predictCalls = <<>>
  /\ citySearches = <<>>
  /\ input = <<>>
  /\ outcome = Null
  /\ modelParams = MODEL_PARAMS

NextRequest ==
  \/ handlePredict
  \/ \E i \in 1..Len(predictCalls) :
       \E response \in Responses(predictCalls[i].models) : getPredictionResolves(i, response)
  \/ \E i \in 1..Len(predictCalls), err \in AxiosErrors : getPredictionRejects(i, err)
  \/ handlePredictSingle
  \/ \E i \in 1..Len(predictCalls) : timerFires(i)
  \/ \E i \in 1..Len(predictCalls) :
       \E response \in ResponsesSingle(predictCalls[i].models) :
         getPredictionResolvesSingle(i, response)
  \/ \E i \in 1..Len(predictCalls), err \in AxiosErrors : getPredictionRejectsSingle(i, err)

SpecRequest == InitRequest /\ [][NextRequest]_vars

\* The boundary eventually answers or fails, and the timer fires.
BoundaryAnswers ==
  \/ \E i \in 1..Len(predictCalls) :
       \E response \in Responses(predictCalls[i].models) : getPredictionResolves(i, response)
  \/ \E i \in 1..Len(predictCalls), err \in AxiosErrors : getPredictionRejects(i, err)
  \/ \E i \in 1..Len(predictCalls) :
       \E response \in ResponsesSingle(predictCalls[i].models) :
         getPredictionResolvesSingle(i, response)
  \/ \E i \in 1..Len(predictCalls), err \in AxiosErrors : getPredictionRejectsSingle(i, err)

TimerFires == \E i \in 1..Len(predictCalls) : timerFires(i)

SpecRequestLive == SpecRequest /\ WF_vars(BoundaryAnswers) /\ WF_vars(TimerFires)

\* ------------------------------------------ the city-search specification
\* City searches from a form in city mode, the provider answering with
\* arrays of any of these lengths.
CityLengths == {Rows - 1, Rows, Rows + 1}

\* A provider answer whose time, maximum and minimum arrays have the given
\* lengths; the third day has no precipitation value and the fifth no
\* snowfall value.
CityDaily(nTime, nMax, nMin) ==
  Some([time |-> Some([k \in 1..nTime |-> k]),
        temperature_2m_max |-> Some([k \in 1..nMax |-> Num(50 + k, 0)]),
        temperature_2m_min |-> Some([k \in 1..nMin |-> Num(305 + 10 * k, -1)]),
        precipitation_sum |-> Some([k \in 1..nTime |-> IF k = 3 THEN Null ELSE Num(k % 2, -1)]),
        snowfall_sum |-> Some([k \in 1..nTime |-> IF k = 5 THEN Null ELSE Num(2, -1)])])

NoMinimum ==
  Some([time |-> Some([k \in 1..Rows |-> k]),
        temperature_2m_max |-> Some([k \in 1..Rows |-> Num(50 + k, 0)]),
        temperature_2m_min |-> Null,
        precipitation_sum |-> Some([k \in 1..Rows |-> Num(0, 0)]),
        snowfall_sum |-> Some([k \in 1..Rows |-> Num(0, 0)])])

\* The lengths of the time, maximum and minimum arrays of an answer: all
\* alike, or one of them a day shorter or longer than the others.
CityShapes ==
  {<<n, n, n>> : n \in CityLengths}
    \cup { <<Rows, Rows - 1, Rows>>, <<Rows, Rows, Rows - 1>>, <<Rows + 1, Rows, Rows>>,
           <<Rows - 1, Rows, Rows>>, <<Rows, Rows + 1, Rows>> }

\* The provider has no minimum for the last day.
NullMinimum ==
  Some([time |-> Some([k \in 1..Rows |-> k]),
        temperature_2m_max |-> Some([k \in 1..Rows |-> Num(50 + k, 0)]),
        temperature_2m_min |-> Some([k \in 1..Rows |-> IF k = Rows THEN Null ELSE Num(305 + 10 * k, -1)]),
        precipitation_sum |-> Some([k \in 1..Rows |-> Num(0, 0)]),
        snowfall_sum |-> Some([k \in 1..Rows |-> Num(0, 0)])])

CityResponses ==
  {[daily |-> Null], [daily |-> NoMinimum], [daily |-> NullMinimum]}
    \cup {[daily |-> CityDaily(c[1], c[2], c[3])] : c \in CityShapes}

CityQueries == {<<>>, <<" ">>, <<"p">>}

InitCity ==
  /\ variant \in {"multi", "single"}
  /\ inputMode = "city"
  /\ cityQuery \in CityQueries
  /\ weatherData \in IF Multi THEN {BlankData, DemoTable} ELSE {<<>>}
  /\ temps \in IF Single THEN {BlankTemps} \cup {[i \in 1..Rows |-> t] : t \in DemoTemps} ELSE {<<>>}
  /\ selectedModels = IF Multi THEN RECOMMENDED_MODELS ELSE MODELS_SINGLE
  /\ loading = FALSE
  /\ predictions = Null
  /\ modelErrors = EmptyMap
  /\ globalError = Null
  /\ error = Null
  /\ predictCalls = <<>>
  /\ citySearches = <<>>
  /\ input = <<>>
  /\ outcome = Null
  /\ modelParams = MODEL_PARAMS

NextCity ==
  \/ \E t \in CityQueries : setCityQuery(t)
  \/ handleCitySearch
  \/ \E i \in 1..Len(citySearches), location \in {Null, Location} : searchCityResolves(i, location)
  \/ \E i \in 1..Len(citySearches), err \in NetworkErrors : citySearchRejects(i, err)
  \/ \E i \in 1..Len(citySearches), data \in CityResponses :
       getHistoricalWeatherResolves(i, data)
  \/ handleCitySearchSingle
  \/ \E i \in 1..Len(citySearches), location \in {Null, Location} :
       searchCityResolvesSingle(i, location)
  \/ \E i \in 1..Len(citySearches), err \in NetworkErrors : citySearchRejectsSingle(i, err)
  \/ \E i \in 1..Len(citySearches), data \in CityResponses :
       getHistoricalWeatherResolvesSingle(i, data)

SpecCity == InitCity /\ [][NextCity]_vars

\* ------------------------------------------------- the local regression
Returned(value) == Some([thrown |-> FALSE, value |-> value])

Thrown(message) == Some([thrown |-> TRUE, message |-> message])

\* A faulty reduce, for comparison: the last element is left out.
RECURSIVE reduce_dropsLast(_, _, _)
reduce_dropsLast(temperatures, i, sum) ==
  IF i >= Len(temperatures) THEN sum
  ELSE reduce_dropsLast(temperatures, i + 1,
                        Plus(sum, Times(temperatures[i], modelParams.coef[i])))

\* temperatures.reduce((sum, temp, i) => sum + (temp * MODEL_PARAMS.coef[i]), 0)
\* from index i on, `sum` being the accumulator.
RECURSIVE reduce(_, _, _)
reduce(temperatures, i, sum) ==
  IF i > Len(temperatures) THEN sum
  ELSE reduce(temperatures, i + 1, Plus(sum, Times(temperatures[i], modelParams.coef[i])))

dotProduct(temperatures) == reduce(temperatures, 1, Whole(0))

\* A faulty predictMinTemp, for comparison: the length is not tested and
\* the vector is cut or padded with zeros to the coefficient count.
predictMinTemp_noLengthCheck(temperatures) ==
  LET fitted == [i \in 1..Rows |-> IF i <= Len(temperatures) THEN temperatures[i] ELSE 0]
  IN Returned(Plus(dotProduct(fitted), modelParams.intercept))

predictMinTemp(temperatures) ==
  IF Len(temperatures) # 14
  THEN Thrown("Exactly 14 temperature values are required.")
  ELSE Returned(Plus(dotProduct(temperatures), modelParams.intercept))

\* A call of predictMinTemp with the vector at hand.
callPredictMinTemp ==
  /\ outcome' = predictMinTemp(input)
  /\ UNCHANGED <<form, loading, predictions, modelErrors, globalError, error,
                 predictCalls, citySearches, input, modelParams>>

\* Whole-number temperatures, and the places of a vector they are put at.
MinTempValues == {-3, 1, 20}

MinTempPlaces == {1, 2, 7, Rows - 1, Rows}

MinTempVectors ==
  UNION { {[i \in 1..Rows |-> IF i \in DOMAIN f THEN f[i] ELSE 0] : f \in [places -> MinTempValues]} :
          places \in {q \in SUBSET MinTempPlaces : Cardinality(q) <= MaxOverwrites} }
    \cup {[i \in 1..n |-> v] : n \in {0, Rows - 1, Rows + 1}, v \in MinTempValues \cup {0}}

InitMinTemp ==
  /\ variant = "single"
  /\ inputMode = "manual"
  /\ cityQuery = <<>>
  /\ weatherData = <<>>
  /\ temps = BlankTemps
  /\ selectedModels = MODELS_SINGLE
  /\ loading = FALSE
  /\ predictions = Null
  /\ modelErrors = EmptyMap
  /\ globalError = Null
  /\ error = Null
  /\ predictCalls = <<>>
  /\ citySearches = <<>>
  /\ input \in MinTempVectors
  /\ outcome = Null
  /\ modelParams = MODEL_PARAMS

NextMinTemp == callPredictMinTemp

SpecMinTemp == InitMinTemp /\ [][NextMinTemp]_vars

\* ================================================================ claims
\* What the results area shows as per-model outcomes: the keys of
\* predictions together with the keys of modelErrors.
OutcomeIds == (IF predictions = Null THEN {} ELSE DOMAIN predictions.val) \cup DOMAIN modelErrors

BlankTemperature(data) == \E i \in 1..Rows : data[i].max = <<>> \/ data[i].min = <<>>

\* The 70 values as the build reads them: an empty optional field counts as 0.
FieldValue(row, fld) ==
  parseFloat(IF fld \in {"precip", "snow", "depth"} /\ row[fld] = <<>> THEN <<"0">> ELSE row[fld])

SomeValueNotFinite(data) ==
  \E i \in 1..Rows : \E fld \in Fields : ~isFinite(FieldValue(data[i], fld))

\* C1: after a successful round-trip the ids shown as outcomes are exactly
\* the ids submitted, an id the answer omits being shown as a failure.
C1_OutcomesCoverSelection ==
  [][\A i \in 1..Len(predictCalls) :
       \A response \in Responses(predictCalls[i].models) :
         getPredictionResolves(i, response) => OutcomeIds' = Range(predictCalls[i].models)]_vars

\* C2: a submit that fails validation (no model selected, a blank
\* temperature, a text that is not a number) calls the inference boundary
\* zero times and ends with one request-level message and no outcome.
C2_InvalidMulti ==
  \/ selectedModels = <<>>
  \/ BlankTemperature(weatherData)
  \/ \E i \in 1..Rows : \E fld \in Fields : isNaN(FieldValue(weatherData[i], fld))

C2_InvalidSingle ==
  \/ selectedModels = <<>>
  \/ \E i \in 1..Rows : isNaN(parseFloat(temps[i]))

C2_NoCallOnInvalid ==
  [][/\ (handlePredict /\ C2_InvalidMulti) =>
          /\ predictCalls' = predictCalls
          /\ globalError' # Null
          /\ predictions' = Null
          /\ DOMAIN modelErrors' = {}
     /\ (handlePredictSingle /\ C2_InvalidSingle) =>
          /\ predictCalls' = predictCalls
          /\ error' # Null
          /\ predictions' = Null]_vars

C2_Witness ==
  /\ Multi
  /\ selectedModels = <<>>
  /\ ~BlankTemperature(weatherData)
  /\ globalError = Some("Select at least one model.")
  /\ predictCalls = <<>>
  /\ predictions = Null

\* C3: a successful answer carrying predictions and errors ends with the
\* predictions shown, each error attached to its model id, and no
\* request-level error.
C3_MixedAnswerShown ==
  [][\A i \in 1..Len(predictCalls) :
       \A response \in Responses(predictCalls[i].models) :
         (getPredictionResolves(i, response) /\ response.errors # Null) =>
           /\ predictions' = Some(response.predictions)
           /\ modelErrors' = response.errors.val
           /\ globalError' = Null]_vars

\* C4: a failed round-trip ends with one request-level error, no
\* predictions and no per-model errors.
C4_FailedRoundTrip ==
  [][\A i \in 1..Len(predictCalls) :
       \A err \in AxiosErrors :
         getPredictionRejects(i, err) =>
           /\ globalError' # Null
           /\ predictions' = Null
           /\ DOMAIN modelErrors' = {}]_vars

\* C5: with a model selected, a blank max or min temperature in any row ends
\* the submit with "Max & Min temps needed.", whatever the other rows and
\* fields hold, texts that are no numbers included.
C5_MissingRequiredField ==
  [][(handlePredict /\ selectedModels # <<>> /\ BlankTemperature(weatherData)) =>
       /\ globalError' = Some("Max & Min temps needed.")
       /\ predictCalls' = predictCalls]_vars

C5_Witness ==
  /\ Multi
  /\ globalError = Some("Max & Min temps needed.")
  /\ \E i \in 1..Rows :
       /\ weatherData[i].min = <<>>
       /\ \E j \in 1..Rows : j # i /\ isNaN(parseFloat(weatherData[j].max))

\* C6: a field value that does not parse as a finite number ends the submit
\* with "Invalid numbers detected.", so that no matrix with a NaN or an
\* infinity is dispatched.
C6_InvalidNumber ==
  [][(/\ handlePredict
      /\ selectedModels # <<>>
      /\ ~BlankTemperature(weatherData)
      /\ SomeValueNotFinite(weatherData)) =>
       /\ globalError' = Some("Invalid numbers detected.")
       /\ predictCalls' = predictCalls]_vars

\* C7 as stated: when every row has both temperatures set to valid numbers
\* the build succeeds with 14 rows of 5 values, blank optionals being 0.
ValidTemperatures(data) ==
  \A i \in 1..Rows :
    /\ data[i].max # <<>> /\ isFinite(parseFloat(data[i].max))
    /\ data[i].min # <<>> /\ isFinite(parseFloat(data[i].min))

OptionalsBlankOrNumbers(data) ==
  \A i \in 1..Rows : \A fld \in {"precip", "snow", "depth"} :
    data[i][fld] = <<>> \/ ~isNaN(parseFloat(data[i][fld]))

\* The matrix of `data`: 14 rows of 5 numbers in the input row order, 0
\* where an optional field is blank.
IsMatrixOf(w, data) ==
  /\ Len(w) = Rows
  /\ \A i \in 1..Rows :
       /\ Len(w[i]) = 5
       /\ w[i][1] = parseFloat(data[i].max)
       /\ w[i][2] = parseFloat(data[i].min)
       /\ w[i][3] = (IF data[i].precip = <<>> THEN Zero ELSE parseFloat(data[i].precip))
       /\ w[i][4] = (IF data[i].snow = <<>> THEN Zero ELSE parseFloat(data[i].snow))
       /\ w[i][5] = (IF data[i].depth = <<>> THEN Zero ELSE parseFloat(data[i].depth))

Dispatched ==
  /\ Len(predictCalls') = Len(predictCalls) + 1
  /\ IsMatrixOf(predictCalls'[Len(predictCalls')].data, weatherData)
  /\ globalError' = Null

C7_BuildSucceeds_AsStated ==
  [][(handlePredict /\ selectedModels # <<>> /\ ValidTemperatures(weatherData)) =>
       Dispatched]_vars

\* C7 as amended: when every row has both temperatures set to valid numbers
\* and every optional field is blank or a number, the build succeeds with
\* 14 rows of 5 values in the input row order, blank optionals being 0.
C7_BuildSucceeds ==
  [][(/\ handlePredict
      /\ selectedModels # <<>>
      /\ ValidTemperatures(weatherData)
      /\ OptionalsBlankOrNumbers(weatherData)) => Dispatched]_vars

C7_Witness ==
  /\ Multi
  /\ Len(predictCalls) = 1
  /\ \E i \in 1..Rows :
       /\ weatherData[i].precip = <<>>
       /\ predictCalls[1].data[i][3] = Zero
  /\ IsMatrixOf(predictCalls[1].data, weatherData)

\* C8: the display is in exactly one of three states: no result, one
\* request-level error, or a result set.
NoResult == globalError = Null /\ predictions = Null /\ DOMAIN modelErrors = {}

RequestLevelError == globalError # Null /\ predictions = Null /\ DOMAIN modelErrors = {}

ResultSet == globalError = Null /\ predictions # Null

C8_ThreeDisplayStates == Multi => (NoResult \/ RequestLevelError \/ ResultSet)

\* C9: immediately after clearData the matrix is 14 blank rows and nothing is
\* displayed: no predictions, no request-level error, no per-model error.
C9_ResetToNoResult ==
  [][clearData =>
       /\ Len(weatherData') = Rows
       /\ \A i \in 1..Rows : \A fld \in Fields : weatherData'[i][fld] = <<>>
       /\ predictions' = Null
       /\ globalError' = Null
       /\ DOMAIN modelErrors' = {}]_vars

\* A reset while a request is outstanding: the grid is blank again although
\* a matrix was dispatched.
C9_Witness ==
  /\ Multi
  /\ predictCalls # <<>>
  /\ \A i \in 1..Rows : \A fld \in Fields : weatherData[i][fld] = <<>>
  /\ NoResult

\* C10: while a call to api.getPrediction is outstanding the submit control
\* stays disabled, so at most one prediction request is in flight.
C10_OneRequestInFlight ==
  /\ predictCalls # <<>> => loading
  /\ Len(predictCalls) <= 1


DuplicateFree(s) == \A i, j \in 1..Len(s) : s[i] = s[j] => i = j

FromCatalog(s) == DuplicateFree(s) /\ Range(s) \subseteq Range(MODELS)

\* C11: in every reachable state the selection is a duplicate-free list of
\* catalog ids, and so is the models list of every call to getPrediction.
C11_SelectionFromCatalog ==
  /\ FromCatalog(selectedModels)
  /\ \A i \in 1..Len(predictCalls) : FromCatalog(predictCalls[i].models)

\* A request went out after a tag was switched on and a default one off.
C11_Witness ==
  \E i \in 1..Len(predictCalls) :
    /\ "lr" \in Range(predictCalls[i].models)
    /\ "rf" \notin Range(predictCalls[i].models)
    /\ Len(predictCalls[i].models) >= 4

\* C12: after a request completes with an answer, no id is a key of both
\* predictions and modelErrors, whatever the answer was.
C12_OutcomesDisjoint ==
  [][\A i \in 1..Len(predictCalls) :
       \A response \in Responses(predictCalls[i].models) :
         getPredictionResolves(i, response)
           => DOMAIN predictions'.val \cap DOMAIN modelErrors' = {}]_vars

\* The entries the provider sent for a required field (none when the
\* field or the whole daily block is absent).
Entries(data, fld) ==
  IF data.daily = Null THEN 0
  ELSE IF data.daily.val[fld] = Null THEN 0 ELSE Len(data.daily.val[fld].val)

TooShort(data) ==
  Entries(data, "temperature_2m_max") < Rows \/ Entries(data, "temperature_2m_min") < Rows

\* C13: a provider answer with fewer than 14 maxima or fewer than 14 minima
\* ends the city search with a request-level error and installs no rows.
C13_InsufficientHistory ==
  [][\A i \in 1..Len(citySearches) : \A data \in CityResponses :
       (TooShort(data) /\ getHistoricalWeatherResolves(i, data))
         => (globalError' # Null /\ weatherData' = weatherData)]_vars

\* The single-field version asks the provider for the minima only.
C13_InsufficientHistorySingle ==
  [][\A i \in 1..Len(citySearches) : \A data \in CityResponses :
       (Entries(data, "temperature_2m_min") < Rows /\ getHistoricalWeatherResolvesSingle(i, data))
         => (error' = Some("Insufficient historical data for this location.")
             /\ temps' = temps)]_vars

\* The provider's arrays and the cells they fill.
CityColumns ==
  { <<"temperature_2m_max", "max">>, <<"temperature_2m_min", "min">>,
    <<"precipitation_sum", "precip">>, <<"snowfall_sum", "snow">> }

AtLeastRows(data) ==
  /\ data.daily # Null
  /\ Entries(data, "temperature_2m_min") >= Rows
  /\ Len(data.daily.val.time.val) >= Rows

\* C14: from an answer with at least 14 days, row r (1..14) of the
\* installed table holds the provider's values of day length(time) - 14 + r,
\* the last 14 days in the provider's order.
C14_LastRowsInOrder ==
  [][\A i \in 1..Len(citySearches) : \A data \in CityResponses :
       (AtLeastRows(data) /\ getHistoricalWeatherResolves(i, data))
         => /\ Len(weatherData') = Rows
            /\ \A r \in 1..Rows : \A c \in CityColumns :
                 LET arr == data.daily.val[c[1]].val
                     k == Len(data.daily.val.time.val) - Rows + r
                 IN (k \in 1..Len(arr) /\ arr[k] # Null)
                      => weatherData'[r][c[2]] = toString(arr[k].val)]_vars

\* The single-field version: the last 14 minima, in order.
C14_LastRowsInOrderSingle ==
  [][\A i \in 1..Len(citySearches) : \A data \in CityResponses :
       (AtLeastRows(data) /\ data.daily # NullMinimum
          /\ getHistoricalWeatherResolvesSingle(i, data))
         => LET arr == data.daily.val.temperature_2m_min.val
            IN /\ Len(temps') = Rows
               /\ \A r \in 1..Rows : temps'[r] = toString(arr[Len(arr) - Rows + r].val)]_vars

\* A 15-day answer was installed: the rows are days 2 to 15.
C14_Witness ==
  /\ Multi
  /\ weatherData[1].max = <<"5", "2">>
  /\ weatherData[1].min = <<"3", "2", ".", "5">>
  /\ weatherData[Rows].max = <<"6", "5">>
  /\ weatherData[Rows].min = <<"4", "5", ".", "5">>

\* Searches that went on to the historical-weather call.
HistoryCalls == Len(SelectSeq(citySearches, LAMBDA c : c.stage = "getHistoricalWeather"))

\* C15: when the geocoding step returns no candidate, the search ends with
\* the one message that the city was not found; the historical-weather
\* call and the prediction call are not made, and no rows are installed.
C15_LocationNotFound ==
  [][\A i \in 1..Len(citySearches) :
       searchCityResolves(i, Null)
         => /\ globalError' = Some("City \"<cityQuery>\" not found.")
            /\ Len(citySearches') = Len(citySearches) - 1
            /\ HistoryCalls' = HistoryCalls
            /\ predictCalls' = predictCalls
            /\ weatherData' = weatherData
            /\ ~loading']_vars

\* A search ended with the message that the city was not found.
C15_Witness ==
  /\ Multi
  /\ globalError = Some("City \"<cityQuery>\" not found.")
  /\ citySearches = <<>>

\* C16: a submit that passes validation makes one call to the inference
\* boundary, with the whole selection and the whole 14-row matrix; when the
\* call fails, the failure is shown once and no call is made in its place.
C16_OneCallNoRetry ==
  [][/\ (handlePredict /\ validation(selectedModels, weatherData) = Null)
          => /\ Len(predictCalls') = Len(predictCalls) + 1
             /\ SubSeq(predictCalls', 1, Len(predictCalls)) = predictCalls
             /\ predictCalls'[Len(predictCalls')].models = selectedModels
             /\ Len(predictCalls'[Len(predictCalls')].data) = Rows
             /\ \A r \in 1..Rows : Len(predictCalls'[Len(predictCalls')].data[r]) = 5
     /\ \A i \in 1..Len(predictCalls) : \A err \in AxiosErrors :
          getPredictionRejects(i, err)
            => /\ predictCalls' = Remove(predictCalls, i)
               /\ globalError' # Null
               /\ ~loading']_vars

\* A request for two models went out as one call and failed in transport.
C16_Witness ==
  /\ Multi
  /\ Len(selectedModels) = 2
  /\ predictCalls = <<>>
  /\ globalError = Some("Network Error")

\* The request-level message of either version.
RequestError == IF Multi THEN globalError ELSE error

\* A request is over: nothing outstanding, not loading, and either a
\* request-level message or a result, not both.
Completed ==
  /\ predictCalls = <<>>
  /\ ~loading
  /\ (RequestError # Null) # (predictions # Null)

\* C17: if the boundary eventually answers or fails, every started request
\* ends, in a validation failure, a request-level failure or a result, and
\* loading is set back to false.
C17_RunsToCompletion ==
  /\ (predictCalls # <<>>) ~> Completed
  /\ loading ~> ~loading
  /\ [][(handlePredict \/ handlePredictSingle) =>
          (loading' <=> predictCalls' # <<>>) /\ (~loading' => Completed')]_vars

\* A single-field request ran to its result.
C17_Witness ==
  /\ Single
  /\ Completed
  /\ predictions # Null

\* The per-model errors an answer carries.
ErrorsOf(response) == IF response.errors = Null THEN EmptyMap ELSE response.errors.val

\* C18: when a request completes, the predictions and per-model errors on
\* display are those of its own answer (none when it failed), with nothing
\* left over from another request.
C18_NoCrossRequestState ==
  [][/\ \A i \in 1..Len(predictCalls) : \A response \in WellFormed(predictCalls[i].models) :
          getPredictionResolves(i, response)
            => /\ predictions' = Some(response.predictions)
               /\ modelErrors' = ErrorsOf(response)
     /\ \A i \in 1..Len(predictCalls) : \A err \in NetworkErrors :
          getPredictionRejects(i, err)
            => /\ predictions' = Null
               /\ modelErrors' = EmptyMap]_vars

\* C19: called with a vector whose length is not 14, predictMinTemp throws;
\* it returns no value, cut or padded.
C19_ShapeMismatch ==
  [][(callPredictMinTemp /\ Len(input) # Rows)
       => (outcome' # Null /\ outcome'.val.thrown)]_vars

\* A call with 15 elements threw.
C19_Witness ==
  /\ Len(input) = Rows + 1
  /\ outcome = Thrown("Exactly 14 temperature values are required.")

\* The limbs of sum(vector[i] * coef[i]) + intercept, added up limb by limb
\* over the first n elements and carried once at the end.
RECURSIVE LimbSum(_, _, _)
LimbSum(v, n, k) ==
  IF n = 0 THEN MODEL_PARAMS.intercept[k]
  ELSE v[n] * MODEL_PARAMS.coef[n][k] + LimbSum(v, n - 1, k)

Expected(v) == Canonical([k \in 1..6 |-> LimbSum(v, Len(v), k)])

\* C20: called with 14 elements, predictMinTemp returns
\* sum(vector[i] * coef[i]) + intercept, the intercept 1.1008575337049606
\* for the all-zero vector, and leaves MODEL_PARAMS as it was.
C20_LinearFormula ==
  [][(callPredictMinTemp /\ Len(input) = Rows)
       => /\ outcome' = Returned(Expected(input))
          /\ (\A i \in 1..Rows : input[i] = 0)
               => outcome' = Returned(<<1, 1008, 5753, 3704, 9606, 0>>)
          /\ modelParams = MODEL_PARAMS
          /\ modelParams' = MODEL_PARAMS]_vars

\* The vector with 20 in its last place gave 20 * 0.943872100008633 +
\* 1.1008575337049606 = 19.9782995338776206.
C20_Witness ==
  /\ Len(input) = Rows
  /\ input[Rows] = 20
  /\ \A i \in 1..(Rows - 1) : input[i] = 0
  /\ outcome = Returned(<<19, 9782, 9953, 3877, 6206, 0>>)

\* C21: the table always has 14 rows (the 14 texts of the single-field
\* version likewise), and a cell edit changes the addressed field of the
\* addressed row only, every other cell staying where it was.
C21_FourteenRows ==
  /\ [](IF Multi THEN Len(weatherData) = Rows ELSE Len(temps) = Rows)
  /\ [][\A r \in EditRows : \A f \in EditFields : \A t \in CellTexts :
          handleCellChange(r, f, t)
            => \A i \in 1..Rows : \A g \in Fields :
                 weatherData'[i][g] = (IF i = r /\ g = f THEN t ELSE weatherData[i][g])]_vars
  /\ [][\A r \in EditRows : \A t \in TempTexts :
          handleInputChange(r, t)
            => \A i \in 1..Rows : temps'[i] = (IF i = r THEN t ELSE temps[i])]_vars

\* A cell of a filled table was edited, the rest of the table still there.
C21_Witness ==
  /\ Multi
  /\ weatherData[Rows].max = <<"x">>
  /\ weatherData[Rows].min = <<"5", "8", ".", "2">>
  /\ weatherData[1].max = <<"8", "1", ".", "7">>

\* C22: a reset leaves the outstanding requests outstanding, and a request
\* that completes afterwards still writes its outcome: the predictions and
\* per-model errors of its answer, or the message of its failure.
C22_ResetDoesNotCancel ==
  [][/\ clearData
          => /\ predictCalls' = predictCalls
             /\ citySearches' = citySearches
             /\ loading' = loading
     /\ \A i \in 1..Len(predictCalls) : \A response \in WellFormed(predictCalls[i].models) :
          getPredictionResolves(i, response)
            => /\ predictions' = Some(response.predictions)
               /\ response.errors # Null => modelErrors' = response.errors.val
     /\ \A i \in 1..Len(predictCalls) : \A err \in NetworkErrors :
          getPredictionRejects(i, err) => globalError' = Some(err.message)]_vars

\* Predictions are on display over a blank table: the table was reset
\* after the request went out, and the answer was written all the same.
C22_Witness ==
  /\ Multi
  /\ predictCalls = <<>>
  /\ predictions # Null
  /\ weatherData = BlankData

\* The message the claim names for a failure, in its order of choice; a
\* response without a body is none of its cases.
ChosenMessage(err) ==
  IF err.hasResponse /\ err.hasData /\ err.dataError # "" THEN Some(err.dataError)
  ELSE IF err.hasResponse /\ err.hasData THEN Some("Server error")
  ELSE IF ~err.hasResponse /\ err.message # "" THEN Some(err.message)
  ELSE IF ~err.hasResponse THEN Some("Prediction failed.")
  ELSE Null

\* C23: the message shown for a failed round-trip is the error text of the
\* response body when it has one, "Server error" for a body without one,
\* the transport error's message when there was no response, and
\* "Prediction failed." when that message is empty.
C23_MessagePriority ==
  [][\A i \in 1..Len(predictCalls) : \A err \in AxiosErrors :
       (getPredictionRejects(i, err) /\ ChosenMessage(err) # Null)
         => globalError' = ChosenMessage(err)]_vars

\* The boundary's own error text is on display.
C23_Witness ==
  /\ Multi
  /\ predictCalls = <<>>
  /\ ~loading
  /\ globalError = Some("Model not loaded")

\* The provider has no value for day k in the array.
Lacks(arr, k) == k \notin 1..Len(arr) \/ arr[k] = Null

\* C24: in the rows a city search installs, an optional field for which the
\* provider has no value on the row's day is "0", as is the snow depth,
\* which the provider is not asked for; no optional field is left blank.
C24_OptionalDefaultsToZero ==
  [][\A i \in 1..Len(citySearches) : \A data \in CityResponses :
       (AtLeastRows(data) /\ getHistoricalWeatherResolves(i, data))
         => \A r \in 1..Rows :
              LET k == Len(data.daily.val.time.val) - Rows + r
              IN /\ Lacks(data.daily.val.precipitation_sum.val, k)
                      => weatherData'[r].precip = <<"0">>
                 /\ Lacks(data.daily.val.snowfall_sum.val, k)
                      => weatherData'[r].snow = <<"0">>
                 /\ weatherData'[r].depth = <<"0">>
                 /\ \A fld \in {"precip", "snow", "depth"} :
                      /\ weatherData'[r][fld] # <<>>
                      /\ isFinite(parseFloat(weatherData'[r][fld]))]_vars

\* A 14-day answer was installed: day 3 has precipitation "0" and day 5
\* snowfall "0", where the other days have the provider's values.
C24_Witness ==
  /\ Multi
  /\ weatherData[1].max = <<"5", "1">>
  /\ weatherData[1].precip = <<"0", ".", "1">>
  /\ weatherData[3].precip = <<"0">>
  /\ weatherData[4].snow = <<"0", ".", "2">>
  /\ weatherData[5].snow = <<"0">>

\* C25: loading is true whenever a round-trip of handlePredict or of
\* handleCitySearch is outstanding.
C25_LoadingWhileOutstanding ==
  ~loading => (predictCalls = <<>> /\ citySearches = <<>>)

\* The table, the 14 texts and the selection are as they were.
InputsKept ==
  /\ weatherData' = weatherData
  /\ temps' = temps
  /\ selectedModels' = selectedModels

\* The answers the search fails on: too few minima, and in the
\* single-field version a missing minimum among the last 14.
FailsOn(data) ==
  \/ Entries(data, "temperature_2m_min") < Rows
  \/ Single /\ data.daily = NullMinimum

\* C26: a city search that fails (no city found, a failed call, too little
\* history) leaves the table and the selection as they were, and a search
\* with a blank or whitespace-only query changes nothing and calls nothing.
C26_FailedSearchFrame ==
  [][/\ ((handleCitySearch \/ handleCitySearchSingle) /\ trim(cityQuery) = <<>>)
          => UNCHANGED vars
     /\ \A i \in 1..Len(citySearches) :
          (searchCityResolves(i, Null) \/ searchCityResolvesSingle(i, Null)) => InputsKept
     /\ \A i \in 1..Len(citySearches) : \A err \in NetworkErrors :
          (citySearchRejects(i, err) \/ citySearchRejectsSingle(i, err)) => InputsKept
     /\ \A i \in 1..Len(citySearches) : \A data \in CityResponses :
          (/\ FailsOn(data)
           /\ getHistoricalWeatherResolves(i, data) \/ getHistoricalWeatherResolvesSingle(i, data))
            => InputsKept /\ RequestError' # Null]_vars

\* A search over a filled table ended for lack of history, the table intact.
C26_Witness ==
  /\ Multi
  /\ citySearches = <<>>
  /\ globalError = Some("Insufficient data.")
  /\ weatherData = DemoTable

====
